---- MODULE Spec2Model ----
(***************************************************************************)
(* The A-Frame `animation` component (src/components/animation/index.js)   *)
(* as a state machine.  One instance of the component is modelled,         *)
(* together with the three host services its handlers call: the entity's   *)
(* DOM event-listener list (el.addEventListener / el.removeEventListener / *)
(* event dispatch), the single-shot timer queue (setTimeout) and the       *)
(* notifications the component emits on the entity (el.emit).              *)
(*                                                                         *)
(* Every host call (update, tick, pause, play, remove), every dispatch of  *)
(* a trigger event and every timer expiry is one atomic action: JavaScript *)
(* runs each of them to completion on a single thread.                     *)
(***************************************************************************)
EXTENDS Integers, Sequences, FiniteSets, TLC

\* ------------------------------------------------------------------ bounds
MaxDelay  == 1   \* data.delay is 0 or MaxDelay (time units)
MaxTimers == 2   \* pending setTimeout callbacks kept at once
MaxTime   == 1   \* cap on the accumulated this.time
MaxDt     == 1   \* frame deltas range over 1..MaxDt

\* ------------------------------------------------------------ input domains
NULL == "null"

\* Names of the trigger events an entity can receive.  They are distinct from
\* the two notifications the component itself emits.
EventNames == {"a", "b", "c"}

\* Values of the four array-typed schema properties (lines 42-45): no triggers;
\* a two-name start list and a resume trigger; a pause, a resume and a restart
\* trigger, which give other handlers to the names of the former.
TriggerSets ==
    { [startEvents |-> <<>>,         pauseEvents |-> <<>>,    resumeEvents |-> <<>>,    restartEvents |-> <<>>],
      [startEvents |-> <<"a", "c">>, pauseEvents |-> <<>>,    resumeEvents |-> <<"b">>, restartEvents |-> <<>>],
      [startEvents |-> <<>>,         pauseEvents |-> <<"a">>, resumeEvents |-> <<"b">>, restartEvents |-> <<"c">>] }

\* this.data: the parsed schema properties that drive the lifecycle (lines 25-47).
\* With an empty property the delay is never read, so it stays at its default.
\* `from` is <<>> for the default '' and <<v>> for an explicit start value v.
\* These configurations animate a scalar from 0 to 1 over a duration longer
\* than the time the model runs: they exercise the lifecycle, not the values.
Configs ==
    { c \in { [ property      |-> p,
                delay         |-> d,
                dur           |-> MaxTime + 1,
                from          |-> <<0>>,
                to            |-> 1,
                startEvents   |-> e.startEvents,
                pauseEvents   |-> e.pauseEvents,
                resumeEvents  |-> e.resumeEvents,
                restartEvents |-> e.restartEvents ] :
              p \in {"", "p"}, d \in {0, MaxDelay}, e \in TriggerSets } :
      c.property = "" => c.delay = 0 }

\* The schema defaults (lines 26, 41-45).
DefaultData ==
    [ property |-> "", delay |-> 0, dur |-> MaxTime + 1, from |-> <<>>, to |-> 0,
      startEvents |-> <<>>, pauseEvents |-> <<>>,
      resumeEvents |-> <<>>, restartEvents |-> <<>> ]

\* Trigger lists of the configurations that exercise the animated values: no
\* triggers, or one trigger of each kind.
ValueTriggerSets ==
    { [startEvents |-> <<>>,    pauseEvents |-> <<>>, resumeEvents |-> <<>>,    restartEvents |-> <<>>],
      [startEvents |-> <<"a">>, pauseEvents |-> <<>>, resumeEvents |-> <<"b">>, restartEvents |-> <<"c">>] }

\* this.data for the animated values of a scalar property.  Without triggers
\* the animation has an explicit start value, starts at once and runs for any
\* duration to one of two end values; with triggers it may be delayed, may
\* read its start value from the entity, and runs as long as the model does.
ValueConfigs ==
    { c \in { [ property      |-> "p",
                delay         |-> d,
                dur           |-> u,
                from          |-> f,
                to            |-> v,
                startEvents   |-> e.startEvents,
                pauseEvents   |-> e.pauseEvents,
                resumeEvents  |-> e.resumeEvents,
                restartEvents |-> e.restartEvents ] :
              d \in {0, MaxDelay}, u \in 1..MaxTime, f \in {<<>>, <<0>>}, v \in {1, 2},
              e \in ValueTriggerSets } :
      IF c.startEvents = <<>>
      THEN c.delay = 0 /\ c.from # <<>>
      ELSE c.to = 2 /\ c.dur = MaxTime }

VARIABLES
    data,               \* this.data
    time,               \* this.time
    animation,          \* this.animation: NULL or "handle" (an anime instance)
    instance,           \* the anime instance this.animation refers to: the start and
                        \* end value and the duration it was built with, and whether
                        \* it has run to its end
    config,             \* this.config: the keys the tween is built from (a duration
                        \* never set is the engine's default, longer than the model runs)
    value,              \* the entity's current value of the animated property
    animationIsPlaying, \* this.animationIsPlaying
    paused,             \* this.paused (undefined is modelled as FALSE: both falsy)
    pausedWasPlaying,   \* this.pausedWasPlaying (undefined modelled as FALSE)
    listeners,          \* el's listener list: event name -> handlers in registration order
    timers,             \* pending setTimeout(this.beginAnimation, delay) callbacks
    removed,            \* the host has called remove(): no lifecycle call follows
    emitted,            \* notifications el.emit sent during the last operation
    lastOp,             \* history: the last operation and what it observed
    sinceBuild,         \* history: how the last build ended ("delayed": timer scheduled,
                        \* "armed": waiting for start events, "begun": begun at once;
                        \* "started" once a start trigger has fired on a delayed or
                        \* armed build) and the 'animationbegin' count of a delayed
                        \* build (0, 1, 2 = more)
    playingAtPause,     \* history: animationIsPlaying when the host pause began
    pausedAt,           \* history: this.time before the last pause, while only ticks followed
    run                 \* history: the notifications emitted since the first update,
                        \* while only ticks have followed it

vars == << data, time, animation, instance, config, value, animationIsPlaying,
           paused, pausedWasPlaying, listeners, timers, removed, emitted, lastOp,
           sinceBuild, playingAtPause, pausedAt, run >>

Range(q) == { q[i] : i \in 1..Len(q) }

Min(x, y) == IF x < y THEN x ELSE y

\* The component as one record, so that handlers compose as in the source.
\* dispatching / dead / ran / threw / advanced live only for the duration of an
\* operation, and so do built (the handles constructed during it), held
\* (which of them this.animation refers to; 0 is the handle held before) and
\* restarting (the restart handler ran while the animation was playing).
Self ==
    [ data |-> data, time |-> time, animation |-> animation,
      instance |-> instance, config |-> config, value |-> value,
      built |-> 0, held |-> 0, restarting |-> FALSE,
      animationIsPlaying |-> animationIsPlaying, paused |-> paused,
      pausedWasPlaying |-> pausedWasPlaying, listeners |-> listeners,
      timers |-> timers, emitted |-> <<>>,
      build |-> sinceBuild,
      dispatching |-> NULL, dead |-> {}, ran |-> <<>>, threw |-> FALSE,
      advanced |-> FALSE ]

\* --------------------------------------------------------- host services

\* el.emit(name, detail), lines 66 and 230.
elEmit(s, name) == [s EXCEPT !.emitted = Append(@, name)]

\* el.addEventListener(name, handler), line 300.  The DOM keeps one listener
\* per (type, callback): adding a registered pair again changes nothing.
elAddEventListener(s, name, handler) ==
    IF handler \in Range(s.listeners[name])
    THEN s
    ELSE [s EXCEPT !.listeners[name] = Append(@, handler)]

\* el.removeEventListener(name, handler), line 307.  A listener removed while
\* its event is being dispatched is not invoked by that dispatch any more.
elRemoveEventListener(s, name, handler) ==
    [s EXCEPT !.listeners[name] = SelectSeq(@, LAMBDA h : h # handler),
              !.dead = IF name = s.dispatching /\ handler \in Range(s.listeners[name])
                       THEN @ \cup {handler} ELSE @]

\* setTimeout(this.beginAnimation, delay), line 213.  `left` is the time still
\* to run; `stale` is history: a later build has replaced the one that
\* scheduled this timer.  The queue is kept in the order the timers come due.
setTimeout(s, delay) ==
    LET due   == SelectSeq(s.timers, LAMBDA t : t.left <= delay)
        later == SelectSeq(s.timers, LAMBDA t : t.left > delay)
    IN  [s EXCEPT !.timers = due \o <<[left |-> delay, stale |-> FALSE]>> \o later]

\* ------------------------------------------------ module-level helpers

RECURSIVE addEventListenersFrom(_, _, _, _)
addEventListenersFrom(s, eventNames, handler, i) ==
    IF i > Len(eventNames) THEN s
    ELSE addEventListenersFrom(elAddEventListener(s, eventNames[i], handler),
                               eventNames, handler, i + 1)

\* function addEventListeners (el, eventNames, handler), lines 297-302.
addEventListenersTo(s, eventNames, handler) ==
    addEventListenersFrom(s, eventNames, handler, 1)

RECURSIVE removeEventListenersFrom(_, _, _, _)
removeEventListenersFrom(s, eventNames, handler, i) ==
    IF i > Len(eventNames) THEN s
    ELSE removeEventListenersFrom(elRemoveEventListener(s, eventNames[i], handler),
                                  eventNames, handler, i + 1)

\* function removeEventListeners (el, eventNames, handler), lines 304-309.
removeEventListenersOf(s, eventNames, handler) ==
    removeEventListenersFrom(s, eventNames, handler, 1)

\* ------------------------------------------------------ component methods

\* addEventListeners, lines 241-248.
addEventListeners(s) ==
    LET s1 == addEventListenersTo(s, s.data.startEvents, "beginAnimation")
        s2 == addEventListenersTo(s1, s.data.pauseEvents, "pauseAnimation")
        s3 == addEventListenersTo(s2, s.data.resumeEvents, "resumeAnimation")
    IN  addEventListenersTo(s3, s.data.restartEvents, "restartAnimation")

\* removeEventListeners, lines 250-257.
removeEventListeners(s) ==
    LET s1 == removeEventListenersOf(s, s.data.startEvents, "beginAnimation")
        s2 == removeEventListenersOf(s1, s.data.pauseEvents, "pauseAnimation")
        s3 == removeEventListenersOf(s2, s.data.resumeEvents, "resumeAnimation")
    IN  removeEventListenersOf(s3, s.data.restartEvents, "restartAnimation")

\* pauseAnimation, lines 224-226.
pauseAnimation(s) == [s EXCEPT !.animationIsPlaying = FALSE]

\* beginAnimation, lines 228-231.
beginAnimation(s) ==
    elEmit([s EXCEPT !.animationIsPlaying = TRUE,
                     !.build.begins = IF s.build.kind \in {"delayed", "armed"}
                                      THEN Min(@ + 1, 2) ELSE @],
           "animationbegin")

\* Faulty variant of resumeAnimation: resuming starts the interpolation from zero again.
resumeAnimationFromZero(s) == [s EXCEPT !.animationIsPlaying = TRUE, !.time = 0]

\* resumeAnimation, lines 237-239.
resumeAnimation(s) == [s EXCEPT !.animationIsPlaying = TRUE]

\* utils.entity.getComponentProperty(el, data.property), lines 136 and 159.
getComponentProperty(s) == s.value

\* Faulty variant of updateConfigForDefault: the start value read from the entity is
\* captured by the first build and kept by the later ones.
updateConfigForDefaultCaptured(s) ==
    LET from == IF s.data.from # <<>> THEN s.data.from[1]
                ELSE IF s.animation # NULL THEN s.config.targets
                ELSE getComponentProperty(s)
    IN  [s EXCEPT !.config.targets = from, !.config.aframeProperty = s.data.to]

\* updateConfigForDefault, lines 130-142.  The vector variant (lines 148-185)
\* picks the start and the end value by the same rule (lines 157-160).
updateConfigForDefault(s) ==
    LET from == IF s.data.from # <<>> THEN s.data.from[1] ELSE getComponentProperty(s)
    IN  [s EXCEPT !.config.targets = from, !.config.aframeProperty = s.data.to]

\* Faulty variant of anime: a handle the component already holds is kept.
animeKeepsHandle(s) ==
    LET s1 == [s EXCEPT !.built = @ + 1,
                        !.timers = [i \in 1..Len(@) |-> [@[i] EXCEPT !.stale = TRUE]],
                        !.build = [kind |-> "built", begins |-> 0]]
    IN  IF s.animation # NULL
        THEN s1
        ELSE [s1 EXCEPT !.animation = "handle",
                        !.held = s.built + 1,
                        !.instance = [from |-> s.config.targets, to |-> s.config.aframeProperty,
                                      dur |-> s.config.duration, completed |-> FALSE]]

\* this.animation = anime(this.config), line 206: a new handle replaces the
\* old one.  Every timer still pending was scheduled by an earlier build.
anime(s) ==
    [s EXCEPT !.animation = "handle",
              !.built = @ + 1,
              !.held = s.built + 1,
              !.instance = [from |-> s.config.targets, to |-> s.config.aframeProperty,
                            dur |-> s.config.duration, completed |-> FALSE],
              !.timers = [i \in 1..Len(@) |-> [@[i] EXCEPT !.stale = TRUE]],
              !.build = [kind |-> "built", begins |-> 0]]

\* Faulty variant of createAndStartAnimation: line 218 without `.length`, so that an
\* empty startEvents array (truthy) also waits for a start event.
createAndStartAnimationNoLength(s, isRestarting) ==
    LET s1 == anime([updateConfigForDefault(s) EXCEPT !.animationIsPlaying = FALSE])
        s2 == addEventListeners(removeEventListeners(s1))
    IN  IF ~isRestarting /\ s.data.delay # 0
        THEN setTimeout([s2 EXCEPT !.build.kind = "delayed"], s.data.delay)
        ELSE IF ~isRestarting
             THEN [s2 EXCEPT !.build.kind = "armed"]
             ELSE beginAnimation([s2 EXCEPT !.build.kind = "begun"])

\* createAndStartAnimation, lines 192-222.  The animated property is a scalar:
\* getPropertyType (lines 264-286) names no vector type for it.
createAndStartAnimation(s, isRestarting) ==
    LET s1 == anime([updateConfigForDefault(s) EXCEPT !.animationIsPlaying = FALSE])
        s2 == addEventListeners(removeEventListeners(s1))
    IN  IF ~isRestarting /\ s.data.delay # 0
        THEN setTimeout([s2 EXCEPT !.build.kind = "delayed"], s.data.delay)
        ELSE IF ~isRestarting /\ Len(s.data.startEvents) # 0
             THEN [s2 EXCEPT !.build.kind = "armed"]
             ELSE beginAnimation([s2 EXCEPT !.build.kind = "begun"])

\* Faulty variant of restartAnimation: the restart is run as a first start.
restartAnimationCold(s) == createAndStartAnimation(s, FALSE)

\* restartAnimation, lines 233-235.
restartAnimation(s) == createAndStartAnimation(s, s.animationIsPlaying)

\* update, lines 71-94 (this.data already holds the new parameters).
update(s) ==
    LET s1 == [s EXCEPT !.animationIsPlaying = FALSE]
    IN  IF s.data.property = ""
        THEN s1
        ELSE createAndStartAnimation(
                 pauseAnimation([s1 EXCEPT !.config.duration = s.data.dur]), FALSE)

\* config.update, lines 139-141: the animated value is written onto the entity.
configUpdate(s, target) == [s EXCEPT !.value = target]

\* config.complete, lines 64-68.
configComplete(s) == elEmit(s, "animationcomplete")

\* The tween engine's advance of an instance to the elapsed time t: it moves
\* the target between the start and the end value, calls the update callback,
\* and calls the completion callback once, when t reaches the duration.
instanceTick(s, t) ==
    LET a       == s.instance
        elapsed == Min(t, a.dur)
        target  == a.from + ((a.to - a.from) * elapsed) \div a.dur
        s1      == configUpdate([s EXCEPT !.advanced = TRUE], target)
    IN  IF t >= a.dur /\ ~a.completed
        THEN configComplete([s1 EXCEPT !.instance.completed = TRUE])
        ELSE s1

\* this.animation.tick(this.time), line 99: a TypeError when the handle is null.
animationTick(s) ==
    IF s.animation = NULL
    THEN [s EXCEPT !.threw = TRUE]
    ELSE instanceTick(s, s.time)

\* Faulty variant of tick: the engine is fed the elapsed time before the frame delta
\* is added to it.
tickFeedsBefore(s, dt) ==
    IF ~s.animationIsPlaying
    THEN s
    ELSE [animationTick(s) EXCEPT !.time = @ + dt]

\* tick, lines 96-100.
tick(s, dt) ==
    IF ~s.animationIsPlaying
    THEN s
    ELSE animationTick([s EXCEPT !.time = @ + dt])

\* remove, lines 102-105.
remove(s) == removeEventListeners(pauseAnimation(s))

\* pause, lines 107-112.
pause(s) ==
    removeEventListeners(
        pauseAnimation([s EXCEPT !.paused = TRUE, !.pausedWasPlaying = TRUE]))

\* Faulty variant of play: the scene resume begins the animation instead of resuming it.
playBegins(s) ==
    IF ~s.paused
    THEN s
    ELSE LET s1 == addEventListeners([s EXCEPT !.paused = FALSE])
         IN  IF s1.pausedWasPlaying
             THEN [beginAnimation(s1) EXCEPT !.pausedWasPlaying = FALSE]
             ELSE s1

\* Faulty variant of play: without the guard of line 118.
playUnguarded(s) ==
    LET s1 == addEventListeners([s EXCEPT !.paused = FALSE])
    IN  IF s1.pausedWasPlaying
        THEN [resumeAnimation(s1) EXCEPT !.pausedWasPlaying = FALSE]
        ELSE s1

\* play, lines 117-125.
play(s) ==
    IF ~s.paused
    THEN s
    ELSE LET s1 == addEventListeners([s EXCEPT !.paused = FALSE])
         IN  IF s1.pausedWasPlaying
             THEN [resumeAnimation(s1) EXCEPT !.pausedWasPlaying = FALSE]
             ELSE s1

\* ------------------------------------------------------- event dispatch

\* The call of one bound handler by the entity's event dispatch.
invoke(s, handler) ==
    LET s1 == [s EXCEPT !.ran = Append(@, handler)]
    IN  CASE handler = "beginAnimation"   -> LET s2 == beginAnimation(s1)
                                             IN  IF s2.build.kind \in {"delayed", "armed"}
                                                 THEN [s2 EXCEPT !.build = [kind |-> "started", begins |-> 0]]
                                                 ELSE s2
          [] handler = "pauseAnimation"   -> pauseAnimation(s1)
          [] handler = "resumeAnimation"  -> resumeAnimation(s1)
          [] handler = "restartAnimation" ->
                 restartAnimation([s1 EXCEPT !.restarting = s1.animationIsPlaying])

RECURSIVE dispatchFrom(_, _, _)
dispatchFrom(s, snapshot, i) ==
    IF i > Len(snapshot) THEN s
    ELSE IF snapshot[i] \in s.dead
         THEN dispatchFrom(s, snapshot, i + 1)
         ELSE dispatchFrom(invoke(s, snapshot[i]), snapshot, i + 1)

\* A trigger event `name` dispatched on the entity: the listeners registered
\* when the dispatch starts run in registration order.
dispatch(s, name) ==
    dispatchFrom([s EXCEPT !.dispatching = name], s.listeners[name], 1)

\* ---------------------------------------------------------------- actions

NotPaused == [at |-> -1, ticked |-> FALSE]

IsPauseOp(op, s) ==
    \/ op.op = "pause"
    \/ op.op = "event" /\ "pauseAnimation" \in Range(s.ran) /\ ~s.animationIsPlaying

\* The state after an operation that took the component from Self to s.
Commit(s, op) ==
    /\ Len(s.timers) <= MaxTimers
    /\ s.time <= MaxTime
    /\ data' = s.data
    /\ time' = s.time
    /\ animation' = s.animation
    /\ instance' = s.instance
    /\ config' = s.config
    /\ value' = s.value
    /\ animationIsPlaying' = s.animationIsPlaying
    /\ paused' = s.paused
    /\ pausedWasPlaying' = s.pausedWasPlaying
    /\ listeners' = s.listeners
    /\ timers' = s.timers
    /\ emitted' = s.emitted
    /\ sinceBuild' = s.build
    /\ lastOp' = op
    /\ playingAtPause' =
          IF op.op = "pause" /\ ~paused THEN animationIsPlaying
          ELSE IF s.paused \/ op.op = "play" THEN playingAtPause
          ELSE FALSE
    /\ pausedAt' =
          IF IsPauseOp(op, s) THEN [at |-> time, ticked |-> FALSE]
          ELSE IF op.op = "tick" /\ pausedAt.at >= 0 THEN [pausedAt EXCEPT !.ticked = TRUE]
          ELSE NotPaused
    /\ run' =
          IF op.op = "update" /\ lastOp.op = "init" THEN [on |-> TRUE, log |-> s.emitted]
          ELSE IF op.op = "tick" /\ run.on THEN [run EXCEPT !.log = @ \o s.emitted]
          ELSE [on |-> FALSE, log |-> <<>>]

Init ==
    /\ data = DefaultData
    /\ time = 0
    /\ animation = NULL
    /\ instance = [from |-> 0, to |-> 0, dur |-> 0, completed |-> FALSE]
    /\ config = [duration |-> MaxTime + 1, targets |-> 0, aframeProperty |-> 0]
    /\ value = 0
    /\ animationIsPlaying = FALSE
    /\ paused = FALSE
    /\ pausedWasPlaying = FALSE
    /\ listeners = [n \in EventNames |-> <<>>]
    /\ timers = <<>>
    /\ removed = FALSE
    /\ emitted = <<>>
    /\ lastOp = [op |-> "init"]
    /\ sinceBuild = [kind |-> "none", begins |-> 0]
    /\ playingAtPause = FALSE
    /\ pausedAt = NotPaused
    /\ run = [on |-> FALSE, log |-> <<>>]

\* The host has run init and the first update, and has not detached.
Attached == lastOp.op # "init" /\ ~removed

\* data-changed: the host stores the new parameters and calls update().
Update(c) ==
    /\ ~removed
    /\ LET Done(s) == Commit(s, [op |-> "update", built |-> s.built, held |-> s.held])
       IN  Done(update([Self EXCEPT !.data = c]))
    /\ UNCHANGED removed

\* Per-frame tick(t, dt).
Tick(dt) ==
    /\ Attached
    /\ LET Done(s) == Commit(s, [op |-> "tick", threw |-> s.threw, advanced |-> s.advanced,
                                 grew |-> s.time # time])
       IN  Done(tick(Self, dt))
    /\ UNCHANGED removed

\* Host pause.
Pause ==
    /\ Attached
    /\ Commit(pause(Self), [op |-> "pause"])
    /\ UNCHANGED removed

\* Host play.
Play ==
    /\ Attached
    /\ Commit(play(Self), [op |-> "play", wasPaused |-> paused, pausedAt |-> pausedAt])
    /\ UNCHANGED removed

\* Host detach.
Remove ==
    /\ Attached
    /\ Commit(remove(Self), [op |-> "remove"])
    /\ removed' = TRUE

\* A trigger event reaches the entity (only events some handler listens to
\* can change the component).
Dispatch(name) ==
    /\ lastOp.op # "init"
    /\ listeners[name] # <<>>
    /\ LET Done(s) == Commit(s, [op |-> "event", name |-> name, ran |-> s.ran,
                                 pausedAt |-> pausedAt, restarting |-> s.restarting,
                                 built |-> s.built, held |-> s.held])
       IN  Done(dispatch(Self, name))
    /\ UNCHANGED removed

\* One unit of time passes.  A timer that is due fires before more time passes.
Elapse ==
    /\ timers # <<>>
    /\ \A i \in 1..Len(timers) : timers[i].left > 0
    /\ Commit([Self EXCEPT !.timers = [i \in 1..Len(@) |-> [@[i] EXCEPT !.left = @ - 1]]],
              [op |-> "elapse"])
    /\ UNCHANGED removed

\* A due timer runs its callback, this.beginAnimation.
TimerFire(i) ==
    /\ i \in 1..Len(timers)
    /\ timers[i].left = 0
    /\ LET rest == [j \in 1..(Len(timers) - 1) |-> IF j < i THEN timers[j] ELSE timers[j + 1]]
       IN  Commit(beginAnimation([Self EXCEPT !.timers = rest]),
                  [op |-> "timer", stale |-> timers[i].stale,
                   wasPlaying |-> animationIsPlaying])
    /\ UNCHANGED removed

Next ==
    \/ \E c \in Configs : Update(c)
    \/ \E dt \in 1..MaxDt : Tick(dt)
    \/ Pause
    \/ Play
    \/ Remove
    \/ \E name \in EventNames : Dispatch(name)
    \/ Elapse
    \/ \E i \in 1..MaxTimers : TimerFire(i)

Spec == Init /\ [][Next]_vars

\* The same operations over the configurations that exercise the animated values.
NextValues ==
    \/ \E c \in ValueConfigs : Update(c)
    \/ \E dt \in 1..MaxDt : Tick(dt)
    \/ Pause
    \/ Play
    \/ Remove
    \/ \E name \in EventNames : Dispatch(name)
    \/ Elapse
    \/ \E i \in 1..MaxTimers : TimerFire(i)

SpecValues == Init /\ [][NextValues]_vars

\* ------------------------------------------------------------------ claims

Rebuilt == lastOp.op = "update" /\ data.property # ""

IsResumeOp ==
    \/ lastOp.op = "play" /\ lastOp.wasPaused
    \/ lastOp.op = "event" /\ "resumeAnimation" \in Range(lastOp.ran)

\* The handlers the current parameters ask for on event `name`.
WantedHandlers(name) ==
    {h \in {"beginAnimation"}   : name \in Range(data.startEvents)} \cup
    {h \in {"pauseAnimation"}   : name \in Range(data.pauseEvents)} \cup
    {h \in {"resumeAnimation"}  : name \in Range(data.resumeEvents)} \cup
    {h \in {"restartAnimation"} : name \in Range(data.restartEvents)}

\* C1: when update has rebuilt the animation for parameters with a property,
\* no start events and delay 0, the component is playing as update returns
\* and that update emitted exactly one 'animationbegin'.
C1_PlayingOnRebuild ==
    (Rebuilt /\ data.startEvents = <<>> /\ data.delay = 0)
        => (animationIsPlaying /\ emitted = <<"animationbegin">>)

\* C1 witness: such an update has returned, here replacing an earlier build
\* whose delay timer is still pending and stale listeners are still registered.
C1_Witness ==
    /\ Rebuilt /\ data.startEvents = <<>> /\ data.delay = 0
    /\ animationIsPlaying
    /\ timers # <<>>
    /\ \E n \in EventNames : listeners[n] # <<>>

\* C2 (as claimed): after a build that scheduled the delay timer, and as long
\* as no start trigger has fired, beginAnimation (the transition to Playing of
\* lines 228-231) runs at most once, and not while that build's timer still
\* has time left.
C2_DelayedBeginOnce ==
    sinceBuild.kind = "delayed"
        => /\ sinceBuild.begins <= 1
           /\ (\E i \in 1..Len(timers) : ~timers[i].stale /\ timers[i].left > 0)
                 => sinceBuild.begins = 0

\* C3 (as claimed): the expiry of a timer that an earlier build scheduled
\* neither sets the component playing nor emits 'animationbegin'.
C3_StaleTimerInert ==
    (lastOp.op = "timer" /\ lastOp.stale)
        => (emitted = <<>> /\ animationIsPlaying = lastOp.wasPlaying)

\* C4 (as claimed): after remove the component is never playing, and no
\* trigger event or timer expiry emits a notification.
C4_RemoveTerminal ==
    removed => (~animationIsPlaying /\ emitted = <<>>)

\* C5 (as claimed): after a rebuild by update or by a restart trigger, the
\* handlers registered on the entity are exactly those of the current
\* startEvents / pauseEvents / resumeEvents / restartEvents, each once.
C5_ListenersMatchData ==
    (Rebuilt \/ (lastOp.op = "event" /\ "restartAnimation" \in Range(lastOp.ran)))
        => \A n \in EventNames :
              /\ Range(listeners[n]) = WantedHandlers(n)
              /\ Len(listeners[n]) = Cardinality(WantedHandlers(n))

\* C6 (as claimed): after a host resume that ends a host pause, the component
\* is playing exactly if it was playing when that host pause began.
C6_ResumeOnlyIfWasPlaying ==
    (lastOp.op = "play" /\ lastOp.wasPaused)
        => (animationIsPlaying = playingAtPause)

\* C7: neither the host pause nor the host resume emits 'animationbegin', and
\* the host resume that ends a pause taken while playing leaves the component
\* playing.
C7_HostResumeNoBegin ==
    /\ lastOp.op \in {"pause", "play"} => emitted = <<>>
    /\ (lastOp.op = "play" /\ lastOp.wasPaused /\ playingAtPause) => animationIsPlaying

\* C7 witness: a host resume has ended a host pause that was taken while playing.
C7_Witness ==
    /\ lastOp.op = "play" /\ lastOp.wasPaused /\ playingAtPause
    /\ animationIsPlaying
    /\ emitted = <<>>

\* C8: after a pause (pause trigger or host pause), any number of ticks and
\* then a resume (resume trigger or host resume), this.time is what it was
\* before the pause.
C8_ResumePreservesTime ==
    (IsResumeOp /\ lastOp.pausedAt.at >= 0) => time = lastOp.pausedAt.at

\* C8 witness: a pause taken at a non-zero elapsed time, a tick while paused,
\* and the resume that followed.
C8_Witness ==
    /\ IsResumeOp
    /\ lastOp.pausedAt.at > 0
    /\ lastOp.pausedAt.ticked
    /\ animationIsPlaying
    /\ time = lastOp.pausedAt.at

\* C9 (as claimed): while the property is empty the component is never
\* playing, no update emits anything, and no tick reaches the tween engine.
C9_EmptyPropertyDisables ==
    (lastOp.op # "init" /\ data.property = "")
        => /\ ~animationIsPlaying
           /\ lastOp.op = "update" => emitted = <<>>
           /\ lastOp.op = "tick" => (~lastOp.advanced /\ ~lastOp.threw)

\* C10 (as claimed): after a build that waits for its start events (delay 0,
\* startEvents not empty) the component is not playing until a start trigger
\* has fired.
C10_ArmedUntilStart ==
    sinceBuild.kind = "armed" => ~animationIsPlaying

C12_StartBuildsFresh ==
    (lastOp.op = "event" /\ lastOp.ran = <<"beginAnimation">>)
        => /\ lastOp.built >= 1 /\ lastOp.held = lastOp.built
           /\ animationIsPlaying
           /\ emitted = <<"animationbegin">>

C14_SingleHandle ==
    /\ (lastOp.op \in {"update", "event"} /\ lastOp.built > 0) => lastOp.held = lastOp.built
    /\ animation # NULL =>
          /\ instance.from = config.targets
          /\ instance.to = config.aframeProperty
          /\ instance.dur = config.duration

\* A restart has replaced the handle of an earlier build, and the new one plays.
C14_Witness ==
    /\ lastOp.op = "event" /\ "restartAnimation" \in Range(lastOp.ran)
    /\ lastOp.built = 1 /\ lastOp.held = 1
    /\ animation # NULL /\ animationIsPlaying

C16_TimeFedToEngine ==
    (lastOp.op = "tick" /\ lastOp.grew) => (lastOp.advanced /\ ~lastOp.threw)

\* C17: while the component is host-paused, animationIsPlaying is false and
\* no trigger event reaches a handler of the component.
C17_HostPausedIsQuiet ==
    paused => (~animationIsPlaying /\ lastOp.op # "event")

\* C18: a host play that no host pause precedes (this.paused is not set)
\* changes nothing: animationIsPlaying, the elapsed time, the handle, the
\* registered listeners and the pending timers stay as they are, and nothing
\* is emitted.
C18_PlayWithoutPauseNoOp ==
    [][ (lastOp'.op = "play" /\ ~paused)
            => /\ UNCHANGED << animationIsPlaying, time, animation, instance, value,
                              listeners, timers, paused, pausedWasPlaying, data >>
               /\ emitted' = <<>> ]_vars

\* A play without a pause, on a component that is playing and has listeners.
C18_Witness ==
    /\ lastOp.op = "play" /\ ~lastOp.wasPaused
    /\ animationIsPlaying
    /\ \E n \in EventNames : listeners[n] # <<>>

\* C19: whenever animationIsPlaying is true, the component holds a handle.
C19_PlayingHasHandle ==
    animationIsPlaying => animation # NULL

\* 'animationbegin' has been emitted since the handle was constructed.
HandleBegun ==
    \/ sinceBuild.kind \in {"begun", "started"}
    \/ sinceBuild.begins >= 1

\* C20: 'animationcomplete' is emitted for a handle only if 'animationbegin'
\* has been emitted since that handle was constructed.
C20_CompleteOnlyAfterBegin ==
    "animationcomplete" \in Range(emitted) => HandleBegun


====
